---- MODULE Spec2Model ----
(***************************************************************************)
(* API-key middleware (validateApiKey, trackApiUsage, verifyDomain) and    *)
(* the PgStorage methods it calls.  One request runs through the chain     *)
(* validateApiKey -> trackApiUsage -> verifyDomain -> route handler while  *)
(* key and integration management calls run concurrently on the store.     *)
(* Strings are sequences of one-character strings, so that startsWith,     *)
(* endsWith and substring are computed as the code computes them.          *)
(***************************************************************************)
EXTENDS Integers, Sequences, FiniteSets, TLC

\* ---------------------------------------------------------------- bounds
MaxStorageCalls == 3
MaxEndCalls == 2
MaxStrLen == 3

\* ------------------------------------------------- literals of the source
BearerPrefix == <<"B", "e", "a", "r", "e", "r", " ">>
AdminPrefix == <<"/", "a", "p", "i", "/", "a", "d", "m", "i", "n">>
VerifyPath == <<"/", "a", "p", "i", "/", "v", "1", "/", "k", "e", "y", "s", "/", "v", "e", "r", "i", "f", "y">>
WildcardPrefix == <<"*", ".">>

\* ------------------------------------------------------- string functions
StartsWith(s, p) == Len(s) >= Len(p) /\ SubSeq(s, 1, Len(p)) = p

EndsWith(s, p) == Len(s) >= Len(p) /\ SubSeq(s, Len(s) - Len(p) + 1, Len(s)) = p

\* String.prototype.substring(n): the characters from index n (0-based) on.
Substring(s, n) == SubSeq(s, n + 1, Len(s))

Digit(d) == <<"0", "1", "2", "3", "4", "5", "6", "7", "8", "9">>[d + 1]

RECURSIVE NumberToString(_)
NumberToString(n) == IF n < 10 THEN <<Digit(n)>>
                     ELSE NumberToString(n \div 10) \o <<Digit(n % 10)>>

\* A header value: undefined, or a string.
Undefined == [defined |-> FALSE, str |-> <<>>]

Str(s) == [defined |-> TRUE, str |-> s]

\* JavaScript truthiness of a header value: undefined and "" are falsy.
Truthy(h) == h.defined /\ h.str # <<>>

\* origin || referer
OrElse(a, b) == IF Truthy(a) THEN a ELSE b

\* ------------------------------------------------------------ URL parsing
HttpsScheme == <<"h", "t", "t", "p", "s", ":", "/", "/">>

ToLowerChar(c) == IF c = "E" THEN "e" ELSE c

ToLower(s) == [i \in 1..Len(s) |-> ToLowerChar(s[i])]

\* The authority part of an absolute URL: up to the first "/" after the scheme.
RECURSIVE TakeHost(_)
TakeHost(s) == IF s = <<>> \/ Head(s) = "/" THEN <<>>
               ELSE <<Head(s)>> \o TakeHost(Tail(s))

\* Variant: the parser accepts every string.
URLParses_Lenient(s) == TRUE

\* new URL(source) throws on a string that is not an absolute URL.
URLParses(s) == StartsWith(s, HttpsScheme) /\ TakeHost(Substring(s, Len(HttpsScheme))) # <<>>

\* new URL(source).hostname, lower-cased as the URL parser does.
URLHostname(s) == ToLower(TakeHost(Substring(s, Len(HttpsScheme))))

\* ------------------------------------------------ the matching predicate
\* Variant: the wildcard's dot is dropped with the star (substring(2)).
DomainMatches_NoDot(domain, hostname) ==
    \/ domain = hostname
    \/ /\ StartsWith(domain, WildcardPrefix)
       /\ EndsWith(hostname, Substring(domain, 2))

DomainMatches(domain, hostname) ==
    \/ domain = hostname
    \/ /\ StartsWith(domain, WildcardPrefix)
       /\ EndsWith(hostname, Substring(domain, 1))

SomeDomainMatches(integrations, hostname) ==
    \E i \in 1..Len(integrations) : DomainMatches(integrations[i].domain, hostname)

\* Variant: only the key verification route is exempt.
PathExempt_VerifyOnly(path) == path = VerifyPath

PathExempt(path) == StartsWith(path, AdminPrefix) \/ path = VerifyPath

\* ------------------------------------------------------------------ state
VARIABLES
    apiKeys,            \* table api_keys: sequence of rows [id, key, active]
    agentIntegrations,  \* table agent_integrations: rows [id, apiKeyId, domain, active]
    apiUsage,           \* table api_usage: rows [apiKeyId, endpoint, statusCode, requestPayload]
    inflight,           \* recordApiUsage calls whose promise has not settled
    req,                \* the request: headers, path, method, attached apiKey
    res,                \* the response: statusCode, body, current end function
    pc,                 \* position of the request in the middleware chain
    awaited,            \* settled result of the storage call being awaited
    token,              \* local apiKey of validateApiKey (header minus prefix)
    outcome,            \* per middleware: calls of next, responses sent, storage queries
    endCalls,           \* arguments of every res.end call made by a caller
    origEndCalls,       \* arguments of every invocation of the original end
    recordCalls,        \* number of storage.recordApiUsage calls
    logs,               \* messages passed to log()
    storageCalls,       \* number of key and integration management calls made
    lookup,             \* history: per middleware, how its storage query settled
                        \* and the table it ran against
    mDomain, mHostname, mResult, mPc   \* harness for the matching predicate

vars == <<apiKeys, agentIntegrations, apiUsage, inflight, req, res, pc, awaited,
          token, outcome, endCalls, origEndCalls, recordCalls, logs,
          storageCalls, lookup, mDomain, mHostname, mResult, mPc>>

reqVars == <<req, res, pc, awaited, token, outcome, endCalls, origEndCalls, recordCalls, lookup>>
matchVars == <<mDomain, mHostname, mResult, mPc>>

Middlewares == {"validateApiKey", "trackApiUsage", "verifyDomain"}

\* ----------------------------------------------------------------- inputs
KeyStrings == { <<"k", "1">> }

AuthHeaders ==
    { Undefined, Str(<<>>),
      Str(<<"B", "e", "a", "r", "e", "r", " ", "k", "1">>),
      Str(<<"B", "e", "a", "r", "e", "r", " ", "k", "2">>),
      Str(<<"b", "e", "a", "r", "e", "r", " ", "k", "1">>),
      Str(<<"B", "e", "a", "r", "e", "r", "k", "1">>),
      Str(<<"B", "a", "s", "i", "c", " ", "k", "1">>),
      Str(<<"k", "1">>),
      Str(BearerPrefix) }

IntegrationDomains ==
    { <<"e", "x", "a", "m", "p", "l", "e", ".", "c", "o", "m">>,
      <<"*", ".", "e", "x", "a", "m", "p", "l", "e", ".", "c", "o", "m">> }

Origins ==
    { Undefined,
      Str(<<"h", "t", "t", "p", "s", ":", "/", "/", "e", "x", "a", "m", "p", "l", "e", ".", "c", "o", "m">>),
      Str(<<"h", "t", "t", "p", "s", ":", "/", "/", "s", "u", "b", ".", "e", "x", "a", "m", "p", "l", "e", ".", "c", "o", "m">>),
      Str(<<"h", "t", "t", "p", "s", ":", "/", "/", "e", "v", "i", "l", "e", "x", "a", "m", "p", "l", "e", ".", "c", "o", "m">>),
      Str(<<"n", "u", "l", "l">>) }

Referers ==
    { Undefined,
      Str(<<"h", "t", "t", "p", "s", ":", "/", "/", "E", "x", "a", "m", "p", "l", "e", ".", "c", "o", "m", "/", "p", "a", "g", "e">>),
      Str(<<"h", "t", "t", "p", "s", ":", "/", "/", "e", "v", "i", "l", "e", "x", "a", "m", "p", "l", "e", ".", "c", "o", "m", "/", "p", "a", "g", "e">>) }

\* Request lines: method and path.
RequestLines ==
    { [method |-> "GET",
       path |-> <<"/", "a", "p", "i", "/", "a", "d", "m", "i", "n", "/", "k", "e", "y", "s">>],
      [method |-> "GET", path |-> VerifyPath],
      [method |-> "POST",
       path |-> <<"/", "a", "p", "i", "/", "v", "1", "/", "c", "h", "a", "t">>] }

HandlerStatuses == {200, 500}

Chunks == {"payload", "more"}

\* All strings over the alphabet of at most n characters.
RECURSIVE StringsUpTo(_)
StringsUpTo(n) ==
    IF n = 0 THEN { <<>> }
    ELSE LET shorter == StringsUpTo(n - 1) IN
         shorter \cup { Append(s, c) : s \in shorter, c \in {"*", ".", "a"} }

MatchStrings ==
    StringsUpTo(MaxStrLen) \cup IntegrationDomains \cup
    { <<"s", "u", "b", ".", "e", "x", "a", "m", "p", "l", "e", ".", "c", "o", "m">>,
      <<"e", "v", "i", "l", "e", "x", "a", "m", "p", "l", "e", ".", "c", "o", "m">>,
      <<"a", ".", "s", "u", "b", ".", "e", "x", "a", "m", "p", "l", "e", ".", "c", "o", "m">>,
      <<".", "e", "x", "a", "m", "p", "l", "e", ".", "c", "o", "m">>,
      <<"*", ".", "c", "o", "m">> }

\* ---------------------------------------------------------- initial state
NoResult == [kind |-> "none", rows |-> <<>>]

Init ==
    /\ apiKeys = <<>>
    /\ agentIntegrations = <<>>
    /\ apiUsage = <<>>
    /\ inflight = <<>>
    /\ req = [authorization |-> Undefined, origin |-> Undefined, referer |-> Undefined,
              path |-> <<>>, method |-> "GET", apiKey |-> <<>>]
    /\ res = [statusCode |-> 200, body |-> "", end |-> "originalEnd"]
    /\ pc = "validateApiKey"
    /\ awaited = NoResult
    /\ token = <<>>
    /\ outcome = [m \in Middlewares |-> [next |-> 0, sent |-> 0, queries |-> 0]]
    /\ endCalls = <<>>
    /\ origEndCalls = <<>>
    /\ recordCalls = 0
    /\ logs = {}
    /\ storageCalls = 0
    /\ lookup = [m \in Middlewares |-> [kind |-> "none", table |-> <<>>]]
    /\ mDomain = <<>> /\ mHostname = <<>> /\ mResult = FALSE /\ mPc = "off"

InitMatch ==
    /\ apiKeys = <<>>
    /\ agentIntegrations = <<>>
    /\ apiUsage = <<>>
    /\ inflight = <<>>
    /\ req = [authorization |-> Undefined, origin |-> Undefined, referer |-> Undefined,
              path |-> <<>>, method |-> "GET", apiKey |-> <<>>]
    /\ res = [statusCode |-> 200, body |-> "", end |-> "originalEnd"]
    /\ pc = "off"
    /\ awaited = NoResult
    /\ token = <<>>
    /\ outcome = [m \in Middlewares |-> [next |-> 0, sent |-> 0, queries |-> 0]]
    /\ endCalls = <<>>
    /\ origEndCalls = <<>>
    /\ recordCalls = 0
    /\ logs = {}
    /\ storageCalls = 0
    /\ lookup = [m \in Middlewares |-> [kind |-> "none", table |-> <<>>]]
    /\ mDomain \in MatchStrings /\ mHostname \in MatchStrings
    /\ mResult = FALSE /\ mPc = "start"

\* ------------------------------------------------------- storage (PgStorage)
\* Rows are inserted active; a row inserted inactive is the row left by an
\* insert followed by deactivate*, so no table content is lost.  The number
\* of management calls in one behaviour is capped by MaxStorageCalls.
createApiKey(key) ==
    /\ pc # "off"
    /\ storageCalls < MaxStorageCalls
    /\ storageCalls' = storageCalls + 1
    /\ apiKeys' = Append(apiKeys, [id |-> Len(apiKeys) + 1, key |-> key, active |-> TRUE])
    /\ UNCHANGED <<agentIntegrations, apiUsage, inflight, logs>>
    /\ UNCHANGED reqVars /\ UNCHANGED matchVars

deactivateApiKey(id) ==
    /\ pc # "off"
    /\ storageCalls < MaxStorageCalls
    /\ storageCalls' = storageCalls + 1
    /\ id \in 1..Len(apiKeys)
    /\ apiKeys' = [apiKeys EXCEPT ![id].active = FALSE]
    /\ UNCHANGED <<agentIntegrations, apiUsage, inflight, logs>>
    /\ UNCHANGED reqVars /\ UNCHANGED matchVars

createAgentIntegration(apiKeyId, domain) ==
    /\ pc # "off"
    /\ storageCalls < MaxStorageCalls
    /\ storageCalls' = storageCalls + 1
    /\ apiKeyId \in 1..Len(apiKeys)
    /\ agentIntegrations' = Append(agentIntegrations,
           [id |-> Len(agentIntegrations) + 1, apiKeyId |-> apiKeyId,
            domain |-> domain, active |-> TRUE])
    /\ UNCHANGED <<apiKeys, apiUsage, inflight, logs>>
    /\ UNCHANGED reqVars /\ UNCHANGED matchVars

deactivateIntegration(id) ==
    /\ pc # "off"
    /\ storageCalls < MaxStorageCalls
    /\ storageCalls' = storageCalls + 1
    /\ id \in 1..Len(agentIntegrations)
    /\ agentIntegrations' = [agentIntegrations EXCEPT ![id].active = FALSE]
    /\ UNCHANGED <<apiKeys, apiUsage, inflight, logs>>
    /\ UNCHANGED reqVars /\ UNCHANGED matchVars

\* Variant: the select forgets the active filter.
ActiveKeyRows_AnyActive(key) == SelectSeq(apiKeys, LAMBDA r : r.key = key)

\* The rows selected by where(key = k and active = true).
ActiveKeyRows(key) == SelectSeq(apiKeys, LAMBDA r : r.key = key /\ r.active = TRUE)

\* Variant: the select also filters on the active flag.
getIntegrationsByApiKeyId_ActiveOnly(apiKeyId) ==
    SelectSeq(agentIntegrations, LAMBDA r : r.apiKeyId = apiKeyId /\ r.active = TRUE)

\* The rows selected by where(apiKeyId = id).
getIntegrationsByApiKeyId(apiKeyId) ==
    SelectSeq(agentIntegrations, LAMBDA r : r.apiKeyId = apiKeyId)

\* The insert of a pending recordApiUsage call completes.
recordApiUsage_Resolve(i) ==
    /\ i \in 1..Len(inflight)
    /\ apiUsage' = Append(apiUsage, inflight[i])
    /\ inflight' = SubSeq(inflight, 1, i - 1) \o SubSeq(inflight, i + 1, Len(inflight))
    /\ UNCHANGED <<apiKeys, agentIntegrations, logs>>
    /\ UNCHANGED reqVars /\ UNCHANGED <<matchVars, storageCalls>>

\* Variant: the .catch handler also turns the response into a 500.
recordApiUsage_Reject_Responds(i) ==
    /\ i \in 1..Len(inflight)
    /\ inflight' = SubSeq(inflight, 1, i - 1) \o SubSeq(inflight, i + 1, Len(inflight))
    /\ logs' = logs \cup {"Failed to record API usage"}
    /\ res' = [res EXCEPT !.statusCode = 500, !.body = "Failed to record API usage"]
    /\ UNCHANGED <<apiKeys, agentIntegrations, apiUsage>>
    /\ UNCHANGED <<req, pc, awaited, token, outcome, endCalls, origEndCalls, recordCalls, lookup>>
    /\ UNCHANGED <<matchVars, storageCalls>>

\* The insert fails: the .catch handler logs and nothing else happens.
recordApiUsage_Reject(i) ==
    /\ i \in 1..Len(inflight)
    /\ inflight' = SubSeq(inflight, 1, i - 1) \o SubSeq(inflight, i + 1, Len(inflight))
    /\ logs' = logs \cup {"Failed to record API usage"}
    /\ UNCHANGED <<apiKeys, agentIntegrations, apiUsage>>
    /\ UNCHANGED reqVars /\ UNCHANGED <<matchVars, storageCalls>>

\* -------------------------------------------------------------- res.end
\* The argument of storage.recordApiUsage built inside the wrapped end.
UsageOf(rq, r) ==
    [apiKeyId |-> rq.apiKey[1].id,
     endpoint |-> rq.path,
     statusCode |-> NumberToString(r.statusCode),
     requestPayload |-> IF rq.method = "GET" THEN "null" ELSE "body"]

\* Variant: the wrapped end stays installed after it ran.
ResEnd_NoRestore(rq, r, chunk) ==
    /\ endCalls' = Append(endCalls, chunk)
    /\ origEndCalls' = Append(origEndCalls, chunk)
    /\ IF r.end = "wrappedEnd"
       THEN /\ res' = r
            /\ inflight' = Append(inflight, UsageOf(rq, r))
            /\ recordCalls' = recordCalls + 1
       ELSE /\ res' = r
            /\ UNCHANGED <<inflight, recordCalls>>
    /\ req' = rq

\* One call res.end(chunk) on response r of request rq.  The wrapped end
\* restores the original end, starts the usage write without awaiting it
\* and calls the (restored) res.end; the original end just completes.
ResEnd(rq, r, chunk) ==
    /\ endCalls' = Append(endCalls, chunk)
    /\ origEndCalls' = Append(origEndCalls, chunk)
    /\ IF r.end = "wrappedEnd"
       THEN /\ res' = [r EXCEPT !.end = "originalEnd"]
            /\ inflight' = Append(inflight, UsageOf(rq, r))
            /\ recordCalls' = recordCalls + 1
       ELSE /\ res' = r
            /\ UNCHANGED <<inflight, recordCalls>>
    /\ req' = rq

\* res.status(status).json({error: message}) called by middleware mw.
Json(mw, rq, status, message) ==
    /\ ResEnd(rq, [res EXCEPT !.statusCode = status, !.body = message], message)
    /\ outcome' = [outcome EXCEPT ![mw].sent = @ + 1]
    /\ pc' = "responded"

\* ------------------------------------------------------- validateApiKey
\* Variant: only a missing header is rejected.
HeaderRejected_AbsentOnly(authHeader) == ~Truthy(authHeader)

\* !authHeader || !authHeader.startsWith("Bearer ")
HeaderRejected(authHeader) ==
    ~Truthy(authHeader) \/ ~StartsWith(authHeader.str, BearerPrefix)

validateApiKey ==
    /\ pc = "validateApiKey"
    /\ \E authHeader \in AuthHeaders :
         LET rq == [req EXCEPT !.authorization = authHeader] IN
         IF HeaderRejected(authHeader)
         THEN /\ Json("validateApiKey", rq, 401, "Authorization header missing or invalid")
              /\ UNCHANGED <<token, awaited>>
         ELSE /\ req' = rq
              /\ token' = Substring(authHeader.str, 7)
              /\ pc' = "validateApiKey_await"
              /\ UNCHANGED <<res, awaited, outcome, endCalls, origEndCalls,
                             recordCalls, inflight>>
    /\ UNCHANGED <<apiKeys, agentIntegrations, apiUsage, logs>>
    /\ UNCHANGED <<matchVars, storageCalls, lookup>>

\* storage.validateApiKey(apiKey) runs against the table: it yields the
\* first selected row (the select has no order), undefined, or throws.
PgStorage_validateApiKey ==
    /\ pc = "validateApiKey_await"
    /\ \E kind \in {"value", "throw"} :
         IF kind = "throw"
         THEN awaited' = [kind |-> "throw", rows |-> <<>>]
         ELSE LET keys == ActiveKeyRows(token) IN
              IF Len(keys) > 0
              THEN \E i \in 1..Len(keys) : awaited' = [kind |-> "value", rows |-> <<keys[i]>>]
              ELSE awaited' = [kind |-> "value", rows |-> <<>>]
    /\ lookup' = [lookup EXCEPT !["validateApiKey"] =
                      [kind |-> awaited'.kind, table |-> apiKeys]]
    /\ outcome' = [outcome EXCEPT !["validateApiKey"].queries = @ + 1]
    /\ pc' = "validateApiKey_resume"
    /\ UNCHANGED <<apiKeys, agentIntegrations, apiUsage, inflight, logs>>
    /\ UNCHANGED <<req, res, token, endCalls, origEndCalls, recordCalls>>
    /\ UNCHANGED <<matchVars, storageCalls>>

validateApiKey_Resume ==
    /\ pc = "validateApiKey_resume"
    /\ IF awaited.kind = "throw"
       THEN /\ logs' = logs \cup {"API key validation error"}
            /\ Json("validateApiKey", req, 500, "Error validating API key")
       ELSE IF awaited.rows = <<>>
       THEN /\ Json("validateApiKey", req, 403, "Invalid or inactive API key")
            /\ UNCHANGED logs
       ELSE /\ req' = [req EXCEPT !.apiKey = awaited.rows]
            /\ outcome' = [outcome EXCEPT !["validateApiKey"].next = @ + 1]
            /\ pc' = "trackApiUsage"
            /\ UNCHANGED <<res, endCalls, origEndCalls, recordCalls, inflight, logs>>
    /\ awaited' = NoResult
    /\ UNCHANGED <<apiKeys, agentIntegrations, apiUsage, token>>
    /\ UNCHANGED <<matchVars, storageCalls, lookup>>

\* -------------------------------------------------------- trackApiUsage
\* Variant: the middleware forgets to install the wrapped end.
trackApiUsage_NoWrap ==
    /\ pc = "trackApiUsage"
    /\ outcome' = [outcome EXCEPT !["trackApiUsage"].next = @ + 1]
    /\ pc' = "verifyDomain"
    /\ UNCHANGED <<apiKeys, agentIntegrations, apiUsage, inflight, logs>>
    /\ UNCHANGED <<req, res, awaited, token, endCalls, origEndCalls, recordCalls>>
    /\ UNCHANGED <<matchVars, storageCalls, lookup>>

trackApiUsage ==
    /\ pc = "trackApiUsage"
    /\ IF req.apiKey = <<>>
       THEN UNCHANGED res
       ELSE res' = [res EXCEPT !.end = "wrappedEnd"]
    /\ outcome' = [outcome EXCEPT !["trackApiUsage"].next = @ + 1]
    /\ pc' = "verifyDomain"
    /\ UNCHANGED <<apiKeys, agentIntegrations, apiUsage, inflight, logs>>
    /\ UNCHANGED <<req, awaited, token, endCalls, origEndCalls, recordCalls>>
    /\ UNCHANGED <<matchVars, storageCalls, lookup>>

\* ---------------------------------------------------------- verifyDomain
verifyDomain ==
    /\ pc = "verifyDomain"
    /\ \E origin \in Origins, referer \in Referers, line \in RequestLines :
         /\ req' = [req EXCEPT !.origin = origin, !.referer = referer,
                               !.path = line.path, !.method = line.method]
         /\ IF req.apiKey = <<>> \/ PathExempt(line.path)
            THEN /\ outcome' = [outcome EXCEPT !["verifyDomain"].next = @ + 1]
                 /\ pc' = "handler"
            ELSE /\ pc' = "verifyDomain_await"
                 /\ UNCHANGED outcome
    /\ UNCHANGED <<apiKeys, agentIntegrations, apiUsage, inflight, logs>>
    /\ UNCHANGED <<res, awaited, token, endCalls, origEndCalls, recordCalls>>
    /\ UNCHANGED <<matchVars, storageCalls, lookup>>

\* storage.getIntegrationsByApiKeyId(apiKey.id) runs against the table, or throws.
PgStorage_getIntegrationsByApiKeyId ==
    /\ pc = "verifyDomain_await"
    /\ \E kind \in {"value", "throw"} :
         IF kind = "throw"
         THEN awaited' = [kind |-> "throw", rows |-> <<>>]
         ELSE awaited' = [kind |-> "value",
                          rows |-> getIntegrationsByApiKeyId(req.apiKey[1].id)]
    /\ lookup' = [lookup EXCEPT !["verifyDomain"] =
                      [kind |-> awaited'.kind, table |-> agentIntegrations]]
    /\ outcome' = [outcome EXCEPT !["verifyDomain"].queries = @ + 1]
    /\ pc' = "verifyDomain_resume"
    /\ UNCHANGED <<apiKeys, agentIntegrations, apiUsage, inflight, logs>>
    /\ UNCHANGED <<req, res, token, endCalls, origEndCalls, recordCalls>>
    /\ UNCHANGED <<matchVars, storageCalls>>

\* Variant: the Referer header is preferred to the Origin header.
Source_RefererFirst(rq) == OrElse(rq.referer, rq.origin)

\* const source = origin || referer
Source(rq) == OrElse(rq.origin, rq.referer)

verifyDomain_Resume ==
    /\ pc = "verifyDomain_resume"
    /\ LET integrations == awaited.rows
           source == Source(req)
       IN
       IF awaited.kind = "throw"
       THEN /\ logs' = logs \cup {"Domain verification error"}
            /\ Json("verifyDomain", req, 500, "Error verifying domain")
       ELSE IF Len(integrations) = 0
       THEN /\ Json("verifyDomain", req, 403, "No integrations configured for this API key")
            /\ UNCHANGED logs
       ELSE IF Truthy(source) /\ ~URLParses(source.str)
       THEN /\ logs' = logs \cup {"Domain verification error"}
            /\ Json("verifyDomain", req, 500, "Error verifying domain")
       ELSE IF ~(Truthy(source) /\ SomeDomainMatches(integrations, URLHostname(source.str)))
       THEN /\ logs' = logs \cup {"Domain verification failed"}
            /\ Json("verifyDomain", req, 403,
                    "This domain is not authorized to use this API key")
       ELSE /\ outcome' = [outcome EXCEPT !["verifyDomain"].next = @ + 1]
            /\ pc' = "handler"
            /\ UNCHANGED <<req, res, endCalls, origEndCalls, recordCalls, inflight, logs>>
    /\ awaited' = NoResult
    /\ UNCHANGED <<apiKeys, agentIntegrations, apiUsage, token>>
    /\ UNCHANGED <<matchVars, storageCalls, lookup>>

\* -------------------------------------------------------- route handler
\* The route behind the chain completes the response: it calls res.end,
\* possibly more than once; the first call fixes the status code.
handler ==
    /\ pc = "handler"
    /\ Len(endCalls) < MaxEndCalls
    /\ \E status \in HandlerStatuses, chunk \in Chunks :
         ResEnd(req, IF endCalls = <<>> THEN [res EXCEPT !.statusCode = status] ELSE res, chunk)
    /\ UNCHANGED <<apiKeys, agentIntegrations, apiUsage, logs>>
    /\ UNCHANGED <<pc, awaited, token, outcome>>
    /\ UNCHANGED <<matchVars, storageCalls, lookup>>

\* ------------------------------------------------- the matching harness
ApplyDomainMatches ==
    /\ mPc = "start"
    /\ mResult' = DomainMatches(mDomain, mHostname)
    /\ mPc' = "done"
    /\ UNCHANGED <<mDomain, mHostname>>
    /\ UNCHANGED <<apiKeys, agentIntegrations, apiUsage, inflight, logs, storageCalls>>
    /\ UNCHANGED reqVars

\* ------------------------------------------------------- specifications
Next ==
    \/ \E key \in KeyStrings : createApiKey(key)
    \/ \E id \in 1..Len(apiKeys) : deactivateApiKey(id)
    \/ \E apiKeyId \in 1..Len(apiKeys), domain \in IntegrationDomains :
           createAgentIntegration(apiKeyId, domain)
    \/ \E id \in 1..Len(agentIntegrations) : deactivateIntegration(id)
    \/ \E i \in 1..Len(inflight) : recordApiUsage_Resolve(i)
    \/ \E i \in 1..Len(inflight) : recordApiUsage_Reject(i)
    \/ validateApiKey
    \/ PgStorage_validateApiKey
    \/ validateApiKey_Resume
    \/ trackApiUsage
    \/ verifyDomain
    \/ PgStorage_getIntegrationsByApiKeyId
    \/ verifyDomain_Resume
    \/ handler

Spec == Init /\ [][Next]_vars

NextMatch == ApplyDomainMatches

SpecMatch == InitMatch /\ [][NextMatch]_vars

\* ================================================================ claims
\* Vocabulary of the claims, spelled out on the characters.
HasPrefix(s, p) == Len(s) >= Len(p) /\ \A i \in 1..Len(p) : s[i] = p[i]

HasSuffix(s, p) == Len(s) >= Len(p) /\ \A i \in 1..Len(p) : s[Len(s) - Len(p) + i] = p[i]

\* The header has the form "Bearer <token>".
WellFormedAuth(h) == h.defined /\ HasPrefix(h.str, <<"B", "e", "a", "r", "e", "r", " ">>)

\* The token after the "Bearer " prefix.
TokenOf(h) == SubSeq(h.str, 8, Len(h.str))

\* An absolute https URL with a non-empty host.
IsAbsoluteUrl(s) ==
    /\ HasPrefix(s, <<"h", "t", "t", "p", "s", ":", "/", "/">>)
    /\ Len(s) > 8
    /\ s[9] # "/"

\* The hostname a header carries, if it carries one.
HeaderHosts(h) == IF Truthy(h) /\ IsAbsoluteUrl(h.str) THEN {URLHostname(h.str)} ELSE {}

\* Domain d authorises host h: d equals h, or d is "*.D" and h ends with ".D".
Authorises(d, h) ==
    \/ d = h
    \/ /\ Len(d) >= 2 /\ d[1] = "*" /\ d[2] = "."
       /\ HasSuffix(h, <<".">> \o SubSeq(d, 3, Len(d)))

UnderAdmin(path) ==
    HasPrefix(path, <<"/", "a", "p", "i", "/", "a", "d", "m", "i", "n", "/">>)

\* The middleware was invoked and has returned.
ReturnedValidate ==
    pc \notin {"off", "validateApiKey", "validateApiKey_await", "validateApiKey_resume"}

ReturnedTrack == outcome["validateApiKey"].next >= 1 /\ pc # "trackApiUsage"

ReturnedVerify == outcome["trackApiUsage"].next >= 1 /\ pc \in {"handler", "responded"}

Returned(mw) ==
    CASE mw = "validateApiKey" -> ReturnedValidate
      [] mw = "trackApiUsage" -> ReturnedTrack
      [] mw = "verifyDomain" -> ReturnedVerify

\* Rows of api_keys, as the lookup saw the table, that match the token and are active.
KeyHits ==
    LET table == lookup["validateApiKey"].table IN
    { i \in 1..Len(table) :
        table[i].key = TokenOf(req.authorization) /\ table[i].active = TRUE }

\* Rows of agent_integrations of the attached key, as the lookup saw the
\* table, whatever their active flag.
KeyIntegrations ==
    LET table == lookup["verifyDomain"].table IN
    { i \in 1..Len(table) : table[i].apiKeyId = req.apiKey[1].id }

IntegrationDomainAt(i) == lookup["verifyDomain"].table[i].domain

\* The request passed trackApiUsage with a key attached.
Tracked == outcome["trackApiUsage"].next = 1 /\ req.apiKey # <<>>

UsageRowsForKey == { i \in 1..Len(apiUsage) : apiUsage[i].apiKeyId = req.apiKey[1].id }

StatusText(n) ==
    CASE n = 200 -> <<"2", "0", "0">>
      [] n = 401 -> <<"4", "0", "1">>
      [] n = 403 -> <<"4", "0", "3">>
      [] n = 500 -> <<"5", "0", "0">>
      [] OTHER -> <<>>

\* ---------------------------------------------------------------- C1
\* C1 as stated: for a well-formed header, validateApiKey calls next iff
\* the token equals the key of a stored key that is active when the lookup
\* runs, the attached record being that row; otherwise it responds 403,
\* does not call next and attaches nothing.
C1_AsStated ==
    (ReturnedValidate /\ WellFormedAuth(req.authorization)) =>
        LET table == lookup["validateApiKey"].table IN
        /\ (outcome["validateApiKey"].next = 1) <=> (KeyHits # {})
        /\ (KeyHits # {}) => \E i \in KeyHits : req.apiKey = <<table[i]>>
        /\ (KeyHits = {}) =>
              /\ res.statusCode = 403
              /\ outcome["validateApiKey"] = [next |-> 0, sent |-> 1, queries |-> 1]
              /\ req.apiKey = <<>>

\* C1 amended: the same, provided storage.validateApiKey returns rather
\* than throws.
C1_ValidKeyIffActiveAtLookup ==
    (ReturnedValidate /\ WellFormedAuth(req.authorization)
       /\ lookup["validateApiKey"].kind = "value") =>
        LET table == lookup["validateApiKey"].table IN
        /\ (outcome["validateApiKey"].next = 1) <=> (KeyHits # {})
        /\ (KeyHits # {}) => \E i \in KeyHits : req.apiKey = <<table[i]>>
        /\ (KeyHits = {}) =>
              /\ res.statusCode = 403
              /\ outcome["validateApiKey"] = [next |-> 0, sent |-> 1, queries |-> 1]
              /\ req.apiKey = <<>>

\* A key that was active and has been deactivated is refused with 403.
C1_Witness ==
    /\ ReturnedValidate
    /\ lookup["validateApiKey"].kind = "value"
    /\ res.statusCode = 403
    /\ \E i \in 1..Len(lookup["validateApiKey"].table) :
         /\ lookup["validateApiKey"].table[i].key = TokenOf(req.authorization)
         /\ lookup["validateApiKey"].table[i].active = FALSE

\* ---------------------------------------------------------------- C2
\* C2: a header that is absent or not of the form "Bearer <token>" gets
\* 401, with no storage query, no key attached and no call of next.
C2_MalformedHeaderIs401 ==
    (ReturnedValidate /\ ~WellFormedAuth(req.authorization)) =>
        /\ res.statusCode = 401
        /\ outcome["validateApiKey"] = [next |-> 0, sent |-> 1, queries |-> 0]
        /\ lookup["validateApiKey"].kind = "none"
        /\ req.apiKey = <<>>
        /\ pc = "responded"

C2_Witness ==
    /\ ReturnedValidate
    /\ req.authorization = Str(<<"B", "a", "s", "i", "c", " ", "k", "1">>)
    /\ res.statusCode = 401

\* ---------------------------------------------------------------- C3
\* C3 as stated: a tracked request whose response is completed has, once
\* its usage write has settled, exactly one usage record for its key.
C3_AsStated ==
    (Tracked /\ Len(origEndCalls) >= 1 /\ inflight = <<>>) =>
        Cardinality(UsageRowsForKey) = 1

\* C3 amended: a tracked, completed request starts exactly one usage
\* write; it yields one record when the write resolves and none when it
\* rejects, so never more than one; the record carries the response status.
C3_AtMostOneUsageRecord ==
    Tracked =>
        LET rejected == IF "Failed to record API usage" \in logs THEN 1 ELSE 0 IN
        /\ Cardinality(UsageRowsForKey) <= 1
        /\ Len(apiUsage) = Cardinality(UsageRowsForKey)
        /\ (Len(origEndCalls) >= 1) =>
              /\ recordCalls = 1
              /\ Len(inflight) + Len(apiUsage) + rejected = 1
        /\ (Len(origEndCalls) = 0) => (recordCalls = 0 /\ apiUsage = <<>>)
        /\ \A i \in 1..Len(apiUsage) :
              /\ apiUsage[i].statusCode = StatusText(res.statusCode)
              /\ apiUsage[i].endpoint = req.path

\* The 403 sent by verifyDomain has been recorded.
C3_Witness ==
    /\ Tracked
    /\ res.statusCode = 403
    /\ outcome["verifyDomain"].sent = 1
    /\ Len(apiUsage) = 1
    /\ inflight = <<>>

C5_WildcardMatchesProperSubdomains ==
    (mPc = "done") =>
        /\ mResult <=> Authorises(mDomain, mHostname)
        /\ (mDomain = <<"*", ".", "e", "x", "a", "m", "p", "l", "e", ".", "c", "o", "m">>) =>
              /\ (mHostname = <<"s", "u", "b", ".", "e", "x", "a", "m", "p", "l", "e", ".", "c", "o", "m">>)
                    => mResult
              /\ (mHostname = <<"e", "x", "a", "m", "p", "l", "e", ".", "c", "o", "m">>)
                    => ~mResult
              /\ (mHostname = <<"e", "v", "i", "l", "e", "x", "a", "m", "p", "l", "e", ".", "c", "o", "m">>)
                    => ~mResult

C5_Witness ==
    /\ mPc = "done"
    /\ mDomain = <<"*", ".", "e", "x", "a", "m", "p", "l", "e", ".", "c", "o", "m">>
    /\ mHostname = <<"e", "v", "i", "l", "e", "x", "a", "m", "p", "l", "e", ".", "c", "o", "m">>
    /\ mResult = FALSE

\* ---------------------------------------------------------------- C6
\* C6: on a path under /api/admin/ or equal to /api/v1/keys/verify,
\* verifyDomain calls next, queries no integrations and sends nothing,
\* whatever Origin, Referer and the key's integrations are.
C6_ExemptPathsBypass ==
    (ReturnedVerify /\ (UnderAdmin(req.path) \/ req.path = VerifyPath)) =>
        /\ outcome["verifyDomain"] = [next |-> 1, sent |-> 0, queries |-> 0]
        /\ lookup["verifyDomain"].kind = "none"
        /\ pc = "handler"

\* An admin request with a malformed Origin and no integration passes.
C6_Witness ==
    /\ ReturnedVerify
    /\ UnderAdmin(req.path)
    /\ req.origin = Str(<<"n", "u", "l", "l">>)
    /\ agentIntegrations = <<>>
    /\ outcome["verifyDomain"].next = 1

\* ---------------------------------------------------------------- C7
\* C7: in a wrapped request recordApiUsage is called at most once however
\* often res.end is invoked; the first call restores the original end;
\* every res.end call invokes the original end once with its arguments.
C7_RecordedAtMostOnce ==
    /\ recordCalls <= 1
    /\ origEndCalls = endCalls
    /\ (recordCalls = 1) => (Tracked /\ Len(endCalls) >= 1)
    /\ (Tracked /\ pc # "verifyDomain" /\ Len(endCalls) >= 1) =>
          (recordCalls = 1 /\ res.end = "originalEnd")
    /\ (Tracked /\ Len(endCalls) = 0) => res.end = "wrappedEnd"

C7_Witness ==
    /\ Tracked
    /\ Len(endCalls) = 2
    /\ endCalls[1] # endCalls[2]
    /\ recordCalls = 1

\* ---------------------------------------------------------------- C8
\* C8: the step that starts the usage write also invokes the original
\* end, and so does every later res.end call, whatever the state of the
\* write; the settling of the write, a rejection included, leaves request
\* and response untouched, and a rejection only logs.
C8_UsageWriteNeverAwaited ==
    [][ /\ (recordCalls' > recordCalls) =>
              /\ Len(inflight') = Len(inflight) + 1
              /\ origEndCalls' = Append(origEndCalls, endCalls'[Len(endCalls')])
        /\ (Len(endCalls') > Len(endCalls)) =>
              Len(origEndCalls') = Len(origEndCalls) + 1
        /\ (Len(inflight') < Len(inflight)) =>
              /\ UNCHANGED <<req, res, pc, outcome, endCalls, origEndCalls>>
              /\ (apiUsage' = apiUsage) =>
                    logs' = logs \cup {"Failed to record API usage"}
      ]_vars

\* The response was completed with 200 and the usage write then failed.
C8_Witness ==
    /\ Len(origEndCalls) >= 1
    /\ res.statusCode = 200
    /\ "Failed to record API usage" \in logs
    /\ apiUsage = <<>>

\* ---------------------------------------------------------------- C9
\* C9: a middleware that has returned has either called next once or sent
\* one error response with status 401, 403 or 500, never both or neither;
\* a throwing storage call, or an Origin/Referer that is no URL, gives
\* 500 without next, and validateApiKey then attaches no key.
C9_NextXorErrorResponse ==
    /\ \A mw \in Middlewares :
          IF Returned(mw)
          THEN /\ outcome[mw].next + outcome[mw].sent = 1
               /\ (outcome[mw].sent = 1) =>
                     /\ res.statusCode \in {401, 403, 500}
                     /\ res.body # ""
                     /\ Len(endCalls) = 1
                     /\ pc = "responded"
          ELSE outcome[mw].next = 0 /\ outcome[mw].sent = 0
    /\ (ReturnedValidate /\ lookup["validateApiKey"].kind = "throw") =>
          /\ res.statusCode = 500
          /\ outcome["validateApiKey"].next = 0
          /\ req.apiKey = <<>>
    /\ (ReturnedVerify /\ lookup["verifyDomain"].kind = "throw") =>
          /\ res.statusCode = 500
          /\ outcome["verifyDomain"].next = 0
    /\ (/\ ReturnedVerify /\ lookup["verifyDomain"].kind = "value"
        /\ KeyIntegrations # {}
        /\ LET src == IF Truthy(req.origin) THEN req.origin ELSE req.referer
           IN  Truthy(src) /\ ~IsAbsoluteUrl(src.str)) =>
          /\ res.statusCode = 500
          /\ outcome["verifyDomain"].next = 0

\* An Origin of "null" made verifyDomain respond 500.
C9_Witness ==
    /\ ReturnedVerify
    /\ lookup["verifyDomain"].kind = "value"
    /\ req.origin = Str(<<"n", "u", "l", "l">>)
    /\ res.statusCode = 500
    /\ outcome["verifyDomain"].sent = 1

\* --------------------------------------------------------------- C10
\* C10: when the integrations lookup returns, the rows that count are all
\* rows of the key, active or not: "no integrations configured" is
\* answered exactly when the key has no row at all, and a deactivated
\* row whose domain authorises the source hostname lets the request pass.
C10_DeactivatedIntegrationStillAuthorises ==
    (/\ ReturnedVerify /\ req.apiKey # <<>> /\ ~PathExempt(req.path)
     /\ lookup["verifyDomain"].kind = "value") =>
        LET table == lookup["verifyDomain"].table
            src == IF Truthy(req.origin) THEN req.origin ELSE req.referer
        IN
        /\ (/\ outcome["verifyDomain"].sent = 1
            /\ res.body = "No integrations configured for this API key")
              <=> (KeyIntegrations = {})
        /\ (\E i \in KeyIntegrations, h \in HeaderHosts(src) :
               table[i].active = FALSE /\ Authorises(table[i].domain, h))
              => outcome["verifyDomain"].next = 1

\* A request passed on the strength of deactivated integrations only.
C10_Witness ==
    /\ ReturnedVerify /\ req.apiKey # <<>> /\ ~PathExempt(req.path)
    /\ lookup["verifyDomain"].kind = "value"
    /\ KeyIntegrations # {}
    /\ \A i \in KeyIntegrations : lookup["verifyDomain"].table[i].active = FALSE
    /\ outcome["verifyDomain"].next = 1

====
